---- MODULE Spec2Model ----
(***************************************************************************)
(* Model of the customer-support-agent retrieval adapter                   *)
(* (app/lib/utils.ts, retrieveContext) and of the knowledge-base listing   *)
(* route (app/api/knowledgebases/route.ts, GET).                           *)
(*                                                                         *)
(* Strings are sequences of one-character strings, so that split, pop,     *)
(* replace and join are computed character by character as the code does.  *)
(* An optional value (undefined in the source) is a record with a def flag.*)
(***************************************************************************)
EXTENDS Integers, Sequences, FiniteSets, TLC

VARIABLES pc, query, knowledgeBaseId, n, sendCount, input, response, result,
          region, clientCount, listSendCount, listResponse, httpResponse,
          retrieveFailures, listFailures

vars == <<pc, query, knowledgeBaseId, n, sendCount, input, response, result,
          region, clientCount, listSendCount, listResponse, httpResponse,
          retrieveFailures, listFailures>>

retrieveVars == <<query, knowledgeBaseId, n, sendCount, input, response, result>>
listVars == <<region, clientCount, listSendCount, listResponse, httpResponse>>
\* what a caller has seen come back from failed invocations, per error
observerVars == <<retrieveFailures, listFailures>>

(* ---------------------------- bounds ---------------------------------- *)
MaxResults == 3
MaxSummaries == 2

(* ------------------------ optional values ----------------------------- *)
UndefinedStr == [def |-> FALSE, val |-> <<>>]
UndefinedNum == [def |-> FALSE, val |-> 0]
Some(v) == [def |-> TRUE, val |-> v]

\* JavaScript truthiness of an optional string / number
TruthyStr(s) == s.def /\ s.val # <<>>
TruthyNum(x) == x.def /\ x.val # 0

(* --------------------------- string helpers --------------------------- *)
Digit(d) == <<"0", "1", "2", "3", "4", "5", "6", "7", "8", "9">>[d + 1]

RECURSIVE IntToStr(_)
IntToStr(i) == IF i < 10 THEN <<Digit(i)>>
               ELSE IntToStr(i \div 10) \o <<Digit(i % 10)>>

\* String.prototype.split with a one-character separator
RECURSIVE Split(_, _)
Split(s, sep) ==
    IF \E i \in 1..Len(s) : s[i] = sep
    THEN LET i == CHOOSE k \in 1..Len(s) :
                     s[k] = sep /\ \A j \in 1..(k - 1) : s[j] # sep
         IN <<SubSeq(s, 1, i - 1)>> \o Split(SubSeq(s, i + 1, Len(s)), sep)
    ELSE <<s>>

\* Array.prototype.pop: the last element
Pop(a) == a[Len(a)]

\* replace(/_/g, " "): every underscore becomes a space
ReplaceUnderscores(s) == [i \in 1..Len(s) |-> IF s[i] = "_" THEN " " ELSE s[i]]

TxtExt == <<".", "t", "x", "t">>

MatchesAt(s, pat, i) == i + Len(pat) - 1 <= Len(s) /\ SubSeq(s, i, i + Len(pat) - 1) = pat

\* replace(".txt", ""): a string pattern removes its FIRST occurrence only
ReplaceFirst(s, pat) ==
    IF \E i \in 1..Len(s) : MatchesAt(s, pat, i)
    THEN LET i == CHOOSE k \in 1..Len(s) :
                     MatchesAt(s, pat, k) /\ \A j \in 1..(k - 1) : ~MatchesAt(s, pat, j)
         IN SubSeq(s, 1, i - 1) \o SubSeq(s, i + Len(pat), Len(s))
    ELSE s

\* Array.prototype.join
RECURSIVE Join(_, _)
Join(a, sep) == IF Len(a) = 0 THEN <<>>
                ELSE IF Len(a) = 1 THEN a[1]
                ELSE a[1] \o sep \o Join(Tail(a), sep)

BlankLine == <<"\n", "\n">>

SourcePrefix == <<"S", "o", "u", "r", "c", "e", "-">>
ChunkPrefix == <<"c", "h", "u", "n", "k", "-">>

(* ------------------------- retrieval inputs --------------------------- *)
DefaultN == 3

Queries == {"", "What is your return policy?"}
KnowledgeBaseIds == {[def |-> FALSE, val |-> ""], [def |-> TRUE, val |-> ""],
                     [def |-> TRUE, val |-> "KB123"]}
ResultLimits == {UndefinedNum, Some(1)}

\* remote errors: thrown by bedrockClient.send
Errors == {[name |-> "NetworkError", message |-> "socket hang up"],
           [name |-> "AccessDeniedException", message |-> "not authorized"]}
NoError == [name |-> "", message |-> ""]

Texts == {<<"R", "e", "t", "u", "r", "n", "s", ".">>, <<"R", "e", "f", "u", "n", "d", "s", ".">>}

PolicyLocator == Some(<<"s", "3", ":", "/", "/", "b", "/", "p", "o", "l", "i", "c", "y", "_", "r", "e", "t", "u", "r", "n", "s", ".", "t", "x", "t">>)

Locators == {UndefinedStr,
             Some(<<>>),
             PolicyLocator,
             Some(<<"s", "3", ":", "/", "/", "b", "/", "a", ".", "t", "x", "t", "_", "b", ".", "t", "x", "t">>),
             Some(<<"s", "3", ":", "/", "/", "b", "/", "r", ".", "p", "d", "f">>),
             Some(<<"s", "3", ":", "/", "/", "b", "/">>),
             Some(<<"f", "a", "q", "_", "x", ".", "t", "x", "t">>)}

ChunkIds == {UndefinedStr, Some(<<"c", "1">>)}
Scores == {UndefinedNum, Some(9)}

\* a null entry of retrievalResults (a malformed response)
NullMatch == [nil |-> TRUE, hasContent |-> FALSE, text |-> UndefinedStr,
              uri |-> UndefinedStr, chunkId |-> UndefinedStr, score |-> UndefinedNum]
\* a match without a content object, and one whose content.text is empty
NoContentMatch == [NullMatch EXCEPT !.nil = FALSE]
EmptyTextMatch == [NoContentMatch EXCEPT !.hasContent = TRUE, !.text = Some(<<>>)]


\* matches with text: every locator without metadata, and the policy
\* document also with a chunk id and a score
TextMatches ==
    {[nil |-> FALSE, hasContent |-> TRUE, text |-> Some(t), uri |-> u,
      chunkId |-> UndefinedStr, score |-> UndefinedNum] :
        t \in Texts, u \in Locators} \cup
    {[nil |-> FALSE, hasContent |-> TRUE, text |-> Some(t), uri |-> PolicyLocator,
      chunkId |-> c, score |-> sc] :
        t \in Texts, c \in ChunkIds \ {UndefinedStr}, sc \in Scores \ {UndefinedNum}}

RawMatches == {NullMatch, NoContentMatch, EmptyTextMatch} \cup TextMatches

SeqsUpTo(S, k) == UNION {[1..m -> S] : m \in 0..k}

\* what bedrockClient.send can resolve to: undefined, an object without
\* retrievalResults, or an object with a list of matches
Responses ==
    {[def |-> FALSE, hasResults |-> FALSE, retrievalResults |-> <<>>],
     [def |-> TRUE, hasResults |-> FALSE, retrievalResults |-> <<>>]} \cup
    {[def |-> TRUE, hasResults |-> TRUE, retrievalResults |-> r] :
        r \in SeqsUpTo(RawMatches, MaxResults)}

NoResponse == [kind |-> "none", error |-> NoError,
               value |-> [def |-> FALSE, hasResults |-> FALSE, retrievalResults |-> <<>>]]

(* --------------------------- retrieveContext -------------------------- *)
\* JavaScript truthiness of an optional opaque token (a plain string)
TruthyTok(s) == s.def /\ s.val # ""

\* a guard that lets the empty string through
MissingKnowledgeBaseIdUndefinedOnly(kb) == ~kb.def

\* utils.ts:60  if (!knowledgeBaseId)
MissingKnowledgeBaseId(kb) == ~TruthyTok(kb)

Returned(ctx, working, sources) ==
    [kind |-> "return", context |-> ctx, isRagWorking |-> working, ragSources |-> sources]
\* an exception leaving a block
Thrown == [kind |-> "throw", context |-> <<>>, isRagWorking |-> FALSE, ragSources |-> <<>>]
NoResult == [kind |-> "none", context |-> <<>>, isRagWorking |-> FALSE, ragSources |-> <<>>]

\* an early exit that reports a working retrieval
EarlyExitAsWorking == Returned(<<>>, TRUE, <<>>)

\* utils.ts:62-66
EarlyExitResult == Returned(<<>>, FALSE, <<>>)
\* zero matches reported as a failure
NoResultsAsFailure == Returned(<<>>, FALSE, <<>>)

\* utils.ts:87-91
NoResultsResult == Returned(<<>>, TRUE, <<>>)
\* utils.ts:129
CatchResult == Returned(<<>>, FALSE, <<>>)

\* a catch block that rethrows
CatchRethrows(outcome) == outcome

\* utils.ts:59,123-130  try { ... } catch (error) { ...; return {...} }
Catch(outcome) == IF outcome.kind = "throw" THEN CatchResult ELSE outcome

\* a request that ignores the requested result count
RetrieveCommandInputDefaultLimit(q, kb, limit) ==
    [knowledgeBaseId |-> kb, text |-> q, numberOfResults |-> DefaultN]

\* utils.ts:71-77
RetrieveCommandInput(q, kb, limit) ==
    [knowledgeBaseId |-> kb, text |-> q, numberOfResults |-> limit]
NoInput == [knowledgeBaseId |-> "", text |-> "", numberOfResults |-> 0]

\* a filter that only looks for the content object
KeepsMatchWithContent(res) == res.hasContent

\* utils.ts:95,112  (res) => res.content && res.content.text
KeepsMatch(res) == res.hasContent /\ TruthyStr(res.text)

RECURSIVE FilterMatches(_)
FilterMatches(a) ==
    IF Len(a) = 0 THEN <<>>
    ELSE IF KeepsMatch(a[1]) THEN <<a[1]>> \o FilterMatches(Tail(a))
    ELSE FilterMatches(Tail(a))

\* a placeholder numbered from one instead of from zero
FileNameOfOneBased(res, index) ==
    LET uri == IF TruthyStr(res.uri) THEN res.uri.val ELSE <<>>
        last == Pop(Split(uri, "/"))
        fileName == IF last # <<>> THEN last
                    ELSE SourcePrefix \o IntToStr(index + 1) \o TxtExt
    IN ReplaceFirst(ReplaceUnderscores(fileName), TxtExt)

\* utils.ts:97-98,103  the display name of a kept match; index is 0-based
FileNameOf(res, index) ==
    LET uri == IF TruthyStr(res.uri) THEN res.uri.val ELSE <<>>
        last == Pop(Split(uri, "/"))
        fileName == IF last # <<>> THEN last
                    ELSE SourcePrefix \o IntToStr(index) \o TxtExt
    IN ReplaceFirst(ReplaceUnderscores(fileName), TxtExt)

\* utils.ts:96-107  the map callback
ToRAGSource(res, index) ==
    [id |-> IF TruthyStr(res.chunkId) THEN res.chunkId.val
            ELSE ChunkPrefix \o IntToStr(index),
     fileName |-> FileNameOf(res, index),
     snippet |-> IF TruthyStr(res.text) THEN res.text.val ELSE <<>>,
     score |-> IF TruthyNum(res.score) THEN res.score.val ELSE 0]

\* utils.ts:83  response?.retrievalResults || []
RawResultsOf(resp) ==
    IF resp.def /\ resp.hasResults THEN resp.retrievalResults ELSE <<>>

\* a context joined with a single newline
ContextOfSingleNewline(rawResults) ==
    LET kept == FilterMatches(rawResults)
    IN Join([i \in 1..Len(kept) |-> kept[i].text.val], <<"\n">>)

\* utils.ts:111-114
ContextOf(rawResults) ==
    LET kept == FilterMatches(rawResults)
    IN Join([i \in 1..Len(kept) |-> kept[i].text.val], BlankLine)

\* a source list built from every match, filtered or not
RagSourcesOfUnfiltered(rawResults) ==
    [i \in 1..Len(rawResults) |-> ToRAGSource(rawResults[i], i - 1)]

\* utils.ts:94-107
RagSourcesOf(rawResults) ==
    LET kept == FilterMatches(rawResults)
    IN [i \in 1..Len(kept) |-> ToRAGSource(kept[i], i - 1)]

\* utils.ts:83-122  everything after the await; reading res.content of a null
\* entry throws a TypeError inside the filter callback
ParseResults(resp) ==
    LET rawResults == RawResultsOf(resp)
    IN IF Len(rawResults) = 0 THEN NoResultsResult
       ELSE IF \E i \in 1..Len(rawResults) : rawResults[i].nil THEN Thrown
       ELSE Returned(ContextOf(rawResults), TRUE, RagSourcesOf(rawResults))

(* ------------------------ knowledge-base listing ---------------------- *)
StatusOk == 200
StatusBadRequest == 400
StatusServerError == 500

Regions == {[def |-> FALSE, val |-> ""], [def |-> TRUE, val |-> ""],
            [def |-> TRUE, val |-> "us-east-1"], [def |-> TRUE, val |-> "eu-west-1"]}

UndefinedTok == [def |-> FALSE, val |-> ""]
UndefinedDate == [def |-> FALSE, valid |-> FALSE, ms |-> 0]

\* Date values: an Invalid Date, and instants in January 1970 given in
\* milliseconds since the epoch
Dates == {UndefinedDate,
          [def |-> TRUE, valid |-> FALSE, ms |-> 0],
          [def |-> TRUE, valid |-> TRUE, ms |-> 0],
          [def |-> TRUE, valid |-> TRUE, ms |-> 90061001]}

Pad2(k) == IF k < 10 THEN <<"0">> \o IntToStr(k) ELSE IntToStr(k)
Pad3(k) == IF k < 10 THEN <<"0", "0">> \o IntToStr(k)
           ELSE IF k < 100 THEN <<"0">> \o IntToStr(k) ELSE IntToStr(k)

\* Date.prototype.toISOString for an instant of January 1970
ToISOString(d) ==
    LET day == (d.ms \div 86400000) + 1
        rest == d.ms % 86400000
        hh == rest \div 3600000
        mm == (rest % 3600000) \div 60000
        ss == (rest % 60000) \div 1000
        mmm == rest % 1000
    IN <<"1", "9", "7", "0", "-", "0", "1", "-">> \o Pad2(day) \o <<"T">> \o
       Pad2(hh) \o <<":">> \o Pad2(mm) \o <<":">> \o Pad2(ss) \o <<".">> \o
       Pad3(mmm) \o <<"Z">>

NullSummary == [nil |-> TRUE, knowledgeBaseId |-> UndefinedTok, name |-> UndefinedTok,
                description |-> UndefinedTok, status |-> UndefinedTok,
                updatedAt |-> UndefinedDate]

Summaries == {NullSummary} \cup
    {[nil |-> FALSE, knowledgeBaseId |-> [def |-> TRUE, val |-> i],
      name |-> [def |-> TRUE, val |-> "docs"], description |-> ds,
      status |-> [def |-> TRUE, val |-> st], updatedAt |-> d] :
        i \in {"KB1", "KB2"},
        ds \in {UndefinedTok, [def |-> TRUE, val |-> "faq"]},
        st \in {"ACTIVE", "FAILED"}, d \in Dates}

\* what client.send can resolve to in the route: undefined, an object without
\* knowledgeBaseSummaries, or an object with a list of summaries
ListResponses ==
    {[def |-> FALSE, hasSummaries |-> FALSE, knowledgeBaseSummaries |-> <<>>],
     [def |-> TRUE, hasSummaries |-> FALSE, knowledgeBaseSummaries |-> <<>>]} \cup
    {[def |-> TRUE, hasSummaries |-> TRUE, knowledgeBaseSummaries |-> r] :
        r \in SeqsUpTo(Summaries, MaxSummaries)}

NoListResponse == [kind |-> "none", error |-> NoError,
                   value |-> [def |-> FALSE, hasSummaries |-> FALSE,
                              knowledgeBaseSummaries |-> <<>>]]

\* a guard that lets the empty region through
MissingRegionNullOnly(r) == ~r.def

\* route.ts:8  if (!region)
MissingRegion(r) == ~TruthyTok(r)

JsonResponse(st, err, list) == [status |-> st, error |-> err, body |-> list]
NoHttpResponse == JsonResponse(0, "", <<>>)

\* route.ts:9
RegionRequired == JsonResponse(StatusBadRequest, "Region is required", <<>>)
\* route.ts:35
FetchFailed == JsonResponse(StatusServerError, "Failed to fetch knowledge bases", <<>>)

\* route.ts:19-25  the map callback
ToKnowledgeBase(kb) ==
    [id |-> kb.knowledgeBaseId, name |-> kb.name, description |-> kb.description,
     status |-> kb.status,
     updatedAt |-> IF kb.updatedAt.def THEN Some(ToISOString(kb.updatedAt))
                   ELSE UndefinedStr]

\* route.ts:19-25  the callback throws on a null summary (TypeError) and on
\* an Invalid Date (RangeError from toISOString)
MapThrows(kb) == kb.nil \/ (kb.updatedAt.def /\ ~kb.updatedAt.valid)

\* a mapping that reverses the order of the summaries
KnowledgeBasesReversed(summaries) ==
    [i \in 1..Len(summaries) |-> ToKnowledgeBase(summaries[Len(summaries) + 1 - i])]

\* route.ts:19-25  response.knowledgeBaseSummaries?.map(...) || []
KnowledgeBasesOf(summaries) ==
    [i \in 1..Len(summaries) |-> ToKnowledgeBase(summaries[i])]

\* a catch block that answers with the name of a TypeError
ListResultNamesTypeError(resp) ==
    IF ~resp.def THEN JsonResponse(StatusServerError, "TypeError", <<>>)
    ELSE IF ~resp.hasSummaries THEN JsonResponse(StatusOk, "", <<>>)
    ELSE IF \E i \in 1..Len(resp.knowledgeBaseSummaries) :
                MapThrows(resp.knowledgeBaseSummaries[i]) THEN FetchFailed
    ELSE JsonResponse(StatusOk, "", KnowledgeBasesOf(resp.knowledgeBaseSummaries))

\* route.ts:17-36  everything after the await, inside try/catch
ListResult(resp) ==
    IF ~resp.def THEN FetchFailed
    ELSE IF ~resp.hasSummaries THEN JsonResponse(StatusOk, "", <<>>)
    ELSE IF \E i \in 1..Len(resp.knowledgeBaseSummaries) :
                MapThrows(resp.knowledgeBaseSummaries[i]) THEN FetchFailed
    ELSE JsonResponse(StatusOk, "", KnowledgeBasesOf(resp.knowledgeBaseSummaries))

(* ------------------------------ state --------------------------------- *)
Init ==
    /\ pc = "idle"
    /\ query = ""
    /\ knowledgeBaseId = UndefinedTok
    /\ n = 0
    /\ sendCount = 0
    /\ input = NoInput
    /\ response = NoResponse
    /\ result = NoResult
    /\ region = UndefinedTok
    /\ clientCount = 0
    /\ listSendCount = 0
    /\ listResponse = NoListResponse
    /\ httpResponse = NoHttpResponse
    /\ retrieveFailures = {}
    /\ listFailures = {}

(* ----------------------------- actions -------------------------------- *)
\* utils.ts:49-80  a call of retrieveContext up to its await (or early return)
RetrieveContext(q, kb, limit) ==
    /\ pc = "idle"
    /\ query' = q
    /\ knowledgeBaseId' = kb
    /\ n' = IF limit.def THEN limit.val ELSE DefaultN
    /\ response' = NoResponse
    /\ UNCHANGED listVars
    /\ UNCHANGED observerVars
    /\ IF MissingKnowledgeBaseId(kb)
       THEN /\ result' = Catch(EarlyExitResult)
            /\ pc' = "retrieve_done"
            /\ UNCHANGED <<sendCount, input>>
       ELSE /\ input' = RetrieveCommandInput(q, kb.val, n')
            /\ sendCount' = sendCount + 1
            /\ result' = NoResult
            /\ pc' = "retrieve_await"

\* utils.ts:80,123-130  bedrockClient.send rejects: the catch block returns
SendRejects(err) ==
    /\ pc = "retrieve_await"
    /\ response' = [kind |-> "rejected", error |-> err, value |-> NoResponse.value]
    /\ result' = Catch(Thrown)
    /\ pc' = "retrieve_done"
    /\ UNCHANGED <<query, knowledgeBaseId, n, sendCount, input>>
    /\ UNCHANGED listVars
    /\ UNCHANGED observerVars

\* utils.ts:80-130  bedrockClient.send resolves: the results are parsed
SendResolves(resp) ==
    /\ pc = "retrieve_await"
    /\ response' = [kind |-> "resolved", error |-> NoError, value |-> resp]
    /\ result' = Catch(ParseResults(resp))
    /\ pc' = "retrieve_done"
    /\ UNCHANGED <<query, knowledgeBaseId, n, sendCount, input>>
    /\ UNCHANGED listVars
    /\ UNCHANGED observerVars

\* route.ts:4-17  a GET request up to its await (or the 400 response)
GET(r) ==
    /\ pc = "idle"
    /\ region' = r
    /\ listResponse' = NoListResponse
    /\ UNCHANGED retrieveVars
    /\ UNCHANGED observerVars
    /\ IF MissingRegion(r)
       THEN /\ httpResponse' = RegionRequired
            /\ pc' = "list_done"
            /\ UNCHANGED <<clientCount, listSendCount>>
       ELSE /\ clientCount' = clientCount + 1
            /\ listSendCount' = listSendCount + 1
            /\ httpResponse' = NoHttpResponse
            /\ pc' = "list_await"

\* route.ts:17,28-35  client.send rejects
ListRejects(err) ==
    /\ pc = "list_await"
    /\ listResponse' = [kind |-> "rejected", error |-> err, value |-> NoListResponse.value]
    /\ httpResponse' = FetchFailed
    /\ pc' = "list_done"
    /\ UNCHANGED <<region, clientCount, listSendCount>>
    /\ UNCHANGED retrieveVars
    /\ UNCHANGED observerVars

\* route.ts:17-36  client.send resolves
ListResolves(resp) ==
    /\ pc = "list_await"
    /\ listResponse' = [kind |-> "resolved", error |-> NoError, value |-> resp]
    /\ httpResponse' = ListResult(resp)
    /\ pc' = "list_done"
    /\ UNCHANGED <<region, clientCount, listSendCount>>
    /\ UNCHANGED retrieveVars
    /\ UNCHANGED observerVars

\* invocations share no state, so the next one starts from the initial state
ResetInvocation ==
    /\ pc' = "idle"
    /\ query' = ""
    /\ knowledgeBaseId' = UndefinedTok
    /\ n' = 0
    /\ sendCount' = 0
    /\ input' = NoInput
    /\ response' = NoResponse
    /\ result' = NoResult
    /\ region' = UndefinedTok
    /\ clientCount' = 0
    /\ listSendCount' = 0
    /\ listResponse' = NoListResponse
    /\ httpResponse' = NoHttpResponse

\* the invocation has returned to its caller
Return ==
    /\ pc \in {"retrieve_done", "list_done"}
    /\ ResetInvocation
    /\ UNCHANGED observerVars

Next ==
    \/ /\ pc = "idle"
       /\ \E q \in Queries, kb \in KnowledgeBaseIds, limit \in ResultLimits :
             RetrieveContext(q, kb, limit)
    \/ /\ pc = "retrieve_await"
       /\ \E err \in Errors : SendRejects(err)
    \/ /\ pc = "retrieve_await"
       /\ \E resp \in Responses : SendResolves(resp)
    \/ /\ pc = "idle"
       /\ \E r \in Regions : GET(r)
    \/ /\ pc = "list_await"
       /\ \E err \in Errors : ListRejects(err)
    \/ /\ pc = "list_await"
       /\ \E resp \in ListResponses : ListResolves(resp)
    \/ Return

Spec == Init /\ [][Next]_vars

TypeOK ==
    /\ pc \in {"idle", "retrieve_await", "retrieve_done", "list_await", "list_done"}
    /\ sendCount \in 0..1
    /\ listSendCount \in 0..1

(* ------------------------ vocabulary of the claims -------------------- *)
RetrieveDone == pc = "retrieve_done"
ListDone == pc = "list_done"

KbSupplied == knowledgeBaseId.def /\ knowledgeBaseId.val # ""
EmptyReturn(working) ==
    result = [kind |-> "return", context |-> <<>>, isRagWorking |-> working,
              ragSources |-> <<>>]

\* the matches of the response received by this invocation
Matches == response.value.retrievalResults
SendRejected == response.kind = "rejected"
SendResolved == response.kind = "resolved"
\* the response has matches and one of them is null: processing it throws
Malformed ==
    /\ SendResolved /\ response.value.def /\ response.value.hasResults
    /\ \E i \in 1..Len(Matches) : Matches[i].nil
ZeroMatches ==
    /\ SendResolved
    /\ \/ ~response.value.def
       \/ ~response.value.hasResults
       \/ Len(Matches) = 0
WellFormedMatches ==
    /\ SendResolved /\ response.value.def /\ response.value.hasResults
    /\ Len(Matches) >= 1
    /\ \A i \in 1..Len(Matches) : ~Matches[i].nil

HasText(m) == m.hasContent /\ m.text.def /\ Len(m.text.val) > 0

\* position in ctx at which the i-th of the texts starts when they are
\* joined with a two-character separator
RECURSIVE StartOf(_, _)
StartOf(texts, i) ==
    IF i = 1 THEN 1 ELSE StartOf(texts, i - 1) + Len(texts[i - 1]) + 2

\* ctx is the texts in order with "\n\n" between consecutive ones
IsBlankLineJoin(ctx, texts) ==
    IF Len(texts) = 0 THEN ctx = <<>>
    ELSE /\ Len(ctx) = StartOf(texts, Len(texts)) + Len(texts[Len(texts)]) - 1
         /\ \A i \in 1..Len(texts) :
               /\ \A k \in 1..Len(texts[i]) :
                     ctx[StartOf(texts, i) + k - 1] = texts[i][k]
               /\ i < Len(texts) =>
                     /\ ctx[StartOf(texts, i) + Len(texts[i])] = "\n"
                     /\ ctx[StartOf(texts, i) + Len(texts[i]) + 1] = "\n"

\* number of matches with text among the first k
KeptUpTo(k) == Cardinality({j \in 1..k : HasText(Matches[j])})

(* ------------------------------ claims -------------------------------- *)
\* C1: a call of retrieveContext with an empty or absent knowledgeBaseId
\* returns isRagWorking=false, an empty context and no sources, and makes
\* no remote call.
C1_EmptyKbShortCircuits ==
    (RetrieveDone /\ ~KbSupplied) =>
        /\ EmptyReturn(FALSE)
        /\ sendCount = 0
        /\ response.kind = "none"

C1_Witness ==
    /\ RetrieveDone
    /\ knowledgeBaseId = [def |-> TRUE, val |-> ""]
    /\ query # ""
    /\ result.kind = "return"

\* C2: when the remote call throws, or its response is malformed so that
\* processing it throws, retrieveContext returns isRagWorking=false with an
\* empty context and no sources; nothing partial, nothing thrown.
C2_FailureReturnsEmpty ==
    (RetrieveDone /\ (SendRejected \/ Malformed)) => EmptyReturn(FALSE)

\* a malformed response whose first match has text: a partial result was
\* within reach
C2_Witness ==
    /\ RetrieveDone
    /\ Malformed
    /\ Len(Matches) >= 2
    /\ HasText(Matches[1])
    /\ result.kind = "return"

\* C3: a successful response with zero matches (and a knowledgeBaseId)
\* returns isRagWorking=true with an empty context and no sources.
C3_ZeroMatchesIsWorking ==
    (RetrieveDone /\ KbSupplied /\ ZeroMatches) => EmptyReturn(TRUE)

C3_Witness ==
    /\ RetrieveDone
    /\ KbSupplied
    /\ response.value.def /\ response.value.hasResults /\ Len(Matches) = 0
    /\ result.isRagWorking

\* C4 as stated: isRagWorking is false only when the remote call failed, and
\* true whenever the remote answered.
C4_FalseOnlyOnRemoteFailure ==
    RetrieveDone =>
        /\ (~result.isRagWorking => SendRejected)
        /\ (SendResolved => result.isRagWorking)

\* C4 amended: isRagWorking is false exactly when no knowledgeBaseId was
\* supplied (no remote call is made), or the remote call threw, or its
\* response was malformed so that processing it threw; a well-formed answer,
\* also one with zero matches, reports true.
C4_FalseIffNoKbOrFailure ==
    RetrieveDone =>
        (~result.isRagWorking <=> (~KbSupplied \/ SendRejected \/ Malformed))

C4_Witness ==
    /\ RetrieveDone
    /\ ~KbSupplied
    /\ ~result.isRagWorking
    /\ response.kind = "none"

\* C5: for a successful response with N >= 1 matches that all contain text,
\* the context is the N texts joined in order with "\n\n", and there are
\* exactly N sources whose snippets are in the same order, isRagWorking=true.
C5_AllTextJoinedInOrder ==
    (RetrieveDone /\ WellFormedMatches /\ \A i \in 1..Len(Matches) : HasText(Matches[i])) =>
        /\ result.kind = "return"
        /\ result.isRagWorking
        /\ Len(result.ragSources) = Len(Matches)
        /\ \A i \in 1..Len(Matches) :
              result.ragSources[i].snippet = Matches[i].text.val
        /\ IsBlankLineJoin(result.context,
                           [i \in 1..Len(Matches) |-> Matches[i].text.val])

C5_Witness ==
    /\ RetrieveDone
    /\ WellFormedMatches
    /\ Len(Matches) >= 2
    /\ \A i \in 1..Len(Matches) : HasText(Matches[i])
    /\ Matches[1].text # Matches[2].text
    /\ Len(result.ragSources) = Len(Matches)

\* C6: a match without text (no content, or an empty or absent content.text)
\* is left out of both the context and the sources, the other matches keep
\* their order in both, and when no match has text the result is empty with
\* isRagWorking=true.
C6_TextlessMatchesExcluded ==
    (RetrieveDone /\ WellFormedMatches) =>
        /\ result.kind = "return"
        /\ result.isRagWorking
        /\ Len(result.ragSources) = KeptUpTo(Len(Matches))
        /\ \A i \in 1..Len(Matches) :
              HasText(Matches[i]) =>
                  result.ragSources[KeptUpTo(i)].snippet = Matches[i].text.val
        /\ IsBlankLineJoin(result.context,
                           [k \in 1..Len(result.ragSources) |->
                               result.ragSources[k].snippet])

\* a textless match between two matches with different texts
C6_Witness ==
    /\ RetrieveDone
    /\ WellFormedMatches
    /\ Len(Matches) = 3
    /\ HasText(Matches[1]) /\ ~HasText(Matches[2]) /\ HasText(Matches[3])
    /\ Matches[1].text # Matches[3].text
    /\ Len(result.ragSources) = 2

\* C7: an invocation with a knowledgeBaseId issues exactly one remote call,
\* with the query unchanged and the requested result count, has its response
\* before it returns, and never sends a second time, also after a failure.
C7_ExactlyOneSend ==
    /\ sendCount <= 1
    /\ (pc = "retrieve_await" =>
           sendCount = 1 /\ response.kind = "none" /\ result.kind = "none")
    /\ (RetrieveDone /\ KbSupplied) =>
           /\ sendCount = 1
           /\ response.kind # "none"
           /\ input.text = query
           /\ input.numberOfResults = n
           /\ input.knowledgeBaseId = knowledgeBaseId.val

C7_Witness ==
    /\ RetrieveDone
    /\ KbSupplied
    /\ SendRejected
    /\ sendCount = 1
    /\ n # DefaultN

\* C8: a listing call whose region is missing or empty gets status 400; no
\* client is constructed and the remote registry is not contacted.
C8_MissingRegionIs400 ==
    (ListDone /\ ~(region.def /\ region.val # "")) =>
        /\ httpResponse.status = 400
        /\ httpResponse.error = "Region is required"
        /\ clientCount = 0
        /\ listSendCount = 0
        /\ listResponse.kind = "none"

C8_Witness ==
    /\ ListDone
    /\ region = [def |-> TRUE, val |-> ""]
    /\ httpResponse.status = 400

ListSummaries == listResponse.value.knowledgeBaseSummaries
\* the registry call threw, or its answer cannot be mapped (no response
\* object, a null summary, an invalid date)
ListFailed ==
    \/ listResponse.kind = "rejected"
    \/ /\ listResponse.kind = "resolved"
       /\ \/ ~listResponse.value.def
          \/ \E i \in 1..Len(ListSummaries) :
                \/ ListSummaries[i].nil
                \/ ListSummaries[i].updatedAt.def /\ ~ListSummaries[i].updatedAt.valid

Epoch == <<"1", "9", "7", "0", "-", "0", "1", "-", "0", "1", "T", "0", "0", ":",
           "0", "0", ":", "0", "0", ".", "0", "0", "0", "Z">>

\* C9: with a region, any remote failure gives status 500 with the fixed
\* error payload and no list; a success gives one record (id, name,
\* description, status, updatedAt) per remote summary in the same order, and
\* an empty list when there are no summaries.
C9_ListAllOrGenericFailure ==
    (ListDone /\ region.def /\ region.val # "") =>
        IF ListFailed
        THEN httpResponse = [status |-> 500,
                             error |-> "Failed to fetch knowledge bases",
                             body |-> <<>>]
        ELSE /\ httpResponse.status = 200
             /\ httpResponse.error = ""
             /\ Len(httpResponse.body) = Len(ListSummaries)
             /\ \A i \in 1..Len(ListSummaries) :
                   /\ httpResponse.body[i].id = ListSummaries[i].knowledgeBaseId
                   /\ httpResponse.body[i].name = ListSummaries[i].name
                   /\ httpResponse.body[i].description = ListSummaries[i].description
                   /\ httpResponse.body[i].status = ListSummaries[i].status
                   /\ httpResponse.body[i].updatedAt.def = ListSummaries[i].updatedAt.def
                   /\ (ListSummaries[i].updatedAt.def /\ ListSummaries[i].updatedAt.ms = 0) =>
                         httpResponse.body[i].updatedAt.val = Epoch

C9_Witness ==
    /\ ListDone
    /\ httpResponse.status = 200
    /\ Len(httpResponse.body) = 2
    /\ httpResponse.body[1].id # httpResponse.body[2].id
    /\ httpResponse.body[1].updatedAt.def

\* the part of a locator after its last "/"
LastSegment(uri) ==
    LET slashes == {i \in 1..Len(uri) : uri[i] = "/"}
        start == IF slashes = {} THEN 1
                 ELSE (CHOOSE i \in slashes : \A j \in slashes : j <= i) + 1
    IN SubSeq(uri, start, Len(uri))

\* a name without its trailing extension (its last "." and what follows)
StripExtension(name) ==
    LET dots == {i \in 1..Len(name) : name[i] = "."}
    IN IF dots = {} THEN name
       ELSE SubSeq(name, 1, (CHOOSE i \in dots : \A j \in dots : j <= i) - 1)

UnderscoresToSpaces(name) ==
    [i \in 1..Len(name) |-> IF name[i] = "_" THEN " " ELSE name[i]]

\* C10: for every kept match, fileName is the last path segment of its
\* locator with every underscore replaced by a space and its trailing
\* extension stripped, for every locator and every extension.
C10_DisplayNameStripsExtension ==
    (RetrieveDone /\ WellFormedMatches) =>
        \A i \in 1..Len(Matches) :
            (/\ HasText(Matches[i])
             /\ Matches[i].uri.def
             /\ LastSegment(Matches[i].uri.val) # <<>>) =>
                result.ragSources[KeptUpTo(i)].fileName =
                    StripExtension(UnderscoresToSpaces(LastSegment(Matches[i].uri.val)))

\* the locator is absent, empty, or ends in "/"
NoFinalSegment(m) ==
    \/ ~m.uri.def
    \/ Len(m.uri.val) = 0
    \/ m.uri.val[Len(m.uri.val)] = "/"

\* "Source-<k>" for a one-digit k
Placeholder(k) ==
    <<"S", "o", "u", "r", "c", "e", "-">> \o
    <<CHOOSE d \in {"0", "1", "2", "3", "4", "5", "6", "7", "8", "9"} :
          d = ToString(k)>>

\* C11: a kept match whose locator is absent, empty or without a final path
\* segment gets the display name Source-<index>, where <index> is its
\* (zero-based) position in the returned source list; nothing is thrown and
\* the invocation returns isRagWorking=true with that match included.
C11_PlaceholderDisplayName ==
    (RetrieveDone /\ WellFormedMatches) =>
        /\ result.kind = "return"
        /\ result.isRagWorking
        /\ \A i \in 1..Len(Matches) :
              (HasText(Matches[i]) /\ NoFinalSegment(Matches[i])) =>
                  /\ KeptUpTo(i) <= Len(result.ragSources)
                  /\ result.ragSources[KeptUpTo(i)].snippet = Matches[i].text.val
                  /\ result.ragSources[KeptUpTo(i)].fileName =
                         Placeholder(KeptUpTo(i) - 1)

\* a locator ending in "/" on the third match, which is the second source
C11_Witness ==
    /\ RetrieveDone
    /\ WellFormedMatches
    /\ Len(Matches) = 3
    /\ HasText(Matches[1]) /\ ~HasText(Matches[2]) /\ HasText(Matches[3])
    /\ Matches[3].uri.def
    /\ Len(Matches[3].uri.val) > 0
    /\ NoFinalSegment(Matches[3])
    /\ Len(result.ragSources) = 2
    /\ result.isRagWorking

\* C13: in every result of retrieveContext the context is the snippets of
\* the returned sources joined in list order with "\n\n", every source has a
\* non-empty snippet, and isRagWorking=false implies an empty context and an
\* empty source list.
C13_ContextAgreesWithSources ==
    RetrieveDone =>
        /\ result.kind = "return"
        /\ IsBlankLineJoin(result.context,
                           [k \in 1..Len(result.ragSources) |->
                               result.ragSources[k].snippet])
        /\ \A k \in 1..Len(result.ragSources) :
              Len(result.ragSources[k].snippet) > 0
        /\ ~result.isRagWorking =>
              (Len(result.context) = 0 /\ Len(result.ragSources) = 0)

\* two sources out of three matches, one of them textless
C13_Witness ==
    /\ RetrieveDone
    /\ SendResolved
    /\ Len(Matches) = 3
    /\ \E i \in 1..3 : ~HasText(Matches[i])
    /\ Len(result.ragSources) = 2
    /\ result.ragSources[1].snippet # result.ragSources[2].snippet
    /\ Len(result.context) > 0

(* ---------------- failed invocations seen by one caller --------------- *)
\* errors raised while a resolved response is processed
NullTypeError == [name |-> "TypeError", message |-> "Cannot read properties of null"]
UndefinedTypeError == [name |-> "TypeError",
                       message |-> "Cannot read properties of undefined"]
InvalidDateError == [name |-> "RangeError", message |-> "Invalid time value"]

\* utils.ts:123  the catch block of retrieveContext ran, and with which error
RetrieveCaught ==
    \/ response.kind = "rejected"
    \/ response.kind = "resolved" /\ ParseResults(response.value).kind = "throw"
RetrieveCaughtError ==
    IF response.kind = "rejected" THEN response.error ELSE NullTypeError

\* route.ts:28  the catch block of GET ran, and with which error
ListCaught ==
    \/ listResponse.kind = "rejected"
    \/ /\ listResponse.kind = "resolved"
       /\ \/ ~listResponse.value.def
          \/ \E i \in 1..Len(listResponse.value.knowledgeBaseSummaries) :
                MapThrows(listResponse.value.knowledgeBaseSummaries[i])
ListCaughtError ==
    IF listResponse.kind = "rejected" THEN listResponse.error
    ELSE IF ~listResponse.value.def THEN UndefinedTypeError
    ELSE IF \E i \in 1..Len(listResponse.value.knowledgeBaseSummaries) :
                listResponse.value.knowledgeBaseSummaries[i].nil THEN NullTypeError
    ELSE InvalidDateError

\* responses that exercise the failure paths: null entries, an invalid date
ProbeMatch == [nil |-> FALSE, hasContent |-> TRUE, text |-> Some(<<"R", "e", "t", "u", "r", "n", "s", ".">>),
               uri |-> PolicyLocator, chunkId |-> UndefinedStr, score |-> UndefinedNum]
ProbeResponses ==
    {[def |-> TRUE, hasResults |-> TRUE, retrievalResults |-> r] :
        r \in SeqsUpTo({NullMatch, ProbeMatch}, MaxResults)}

ProbeSummary(d) ==
    [nil |-> FALSE, knowledgeBaseId |-> [def |-> TRUE, val |-> "KB1"],
     name |-> [def |-> TRUE, val |-> "docs"], description |-> UndefinedTok,
     status |-> [def |-> TRUE, val |-> "ACTIVE"], updatedAt |-> d]
ProbeListResponses ==
    {[def |-> FALSE, hasSummaries |-> FALSE, knowledgeBaseSummaries |-> <<>>]} \cup
    {[def |-> TRUE, hasSummaries |-> TRUE, knowledgeBaseSummaries |-> r] :
        r \in SeqsUpTo({NullSummary,
                        ProbeSummary([def |-> TRUE, valid |-> TRUE, ms |-> 0]),
                        ProbeSummary([def |-> TRUE, valid |-> FALSE, ms |-> 0])},
                       MaxSummaries)}

\* the invocation returns to a caller that keeps, for every invocation whose
\* catch block ran, the error that was raised and what came back
ReturnObserved ==
    /\ pc \in {"retrieve_done", "list_done"}
    /\ ResetInvocation
    /\ retrieveFailures' =
          IF pc = "retrieve_done" /\ RetrieveCaught
          THEN retrieveFailures \cup
                  {[error |-> RetrieveCaughtError, returned |-> result]}
          ELSE retrieveFailures
    /\ listFailures' =
          IF pc = "list_done" /\ ListCaught
          THEN listFailures \cup
                  {[error |-> ListCaughtError, returned |-> httpResponse]}
          ELSE listFailures

NextFailures ==
    \/ /\ pc = "idle"
       /\ \E q \in Queries, kb \in KnowledgeBaseIds, limit \in ResultLimits :
             RetrieveContext(q, kb, limit)
    \/ /\ pc = "retrieve_await"
       /\ \E err \in Errors : SendRejects(err)
    \/ /\ pc = "retrieve_await"
       /\ \E resp \in ProbeResponses : SendResolves(resp)
    \/ /\ pc = "idle"
       /\ \E r \in Regions : GET(r)
    \/ /\ pc = "list_await"
       /\ \E err \in Errors : ListRejects(err)
    \/ /\ pc = "list_await"
       /\ \E resp \in ProbeListResponses : ListResolves(resp)
    \/ ReturnObserved

SpecFailures == Init /\ [][NextFailures]_vars

\* C12: whatever the error of a failed invocation (its name, message or
\* kind), the caller gets the same value: any two failed retrieveContext
\* calls return identical results, and any two failed listing calls get an
\* identical status and payload.
C12_FailuresIndistinguishable ==
    /\ \A a, b \in retrieveFailures : a.returned = b.returned
    /\ \A a, b \in listFailures : a.returned = b.returned

\* a rejected send and a parse error seen on both operations
C12_Witness ==
    /\ \E a, b \in retrieveFailures :
          a.error.name = "TypeError" /\ b.error.name = "NetworkError"
    /\ \E a, b \in listFailures :
          a.error.name = "TypeError" /\ b.error.name = "AccessDeniedException"
    /\ \E a \in listFailures : a.error.name = "RangeError"
====
